---- MODULE Spec2Model ----
(***************************************************************************)
(* Model of lib/queues.py: the Mozilla Pulse consumers of mozmill-ci.      *)
(*                                                                         *)
(* One PulseQueue instance (of one of the three subclasses) receives       *)
(* messages from the bus, one at a time, through process_message, which    *)
(* runs _preprocess_message and _on_message of the subclass, handles the   *)
(* exceptions and acknowledges the message.                                *)
(*                                                                         *)
(* Strings the code takes apart (tree names, routing keys, repository      *)
(* paths) are sequences of tokens: words and the separators "." "-" "/".   *)
(* A Python dict is a function from its keys; a missing key is a key that  *)
(* is not in its DOMAIN.  A Python exception is the name of its class.     *)
(***************************************************************************)
EXTENDS Integers, Sequences, FiniteSets, TLC

VARIABLES
    pulse_config,  \* self.pulse_config['trees']: tree -> policy of the tree
    family,        \* the subclass of the queue that handles the message
    pc,            \* position of process_message
    body,          \* the body as the bus delivered it
    message,       \* the kombu message (None when the caller passes none)
    data,          \* the dict (or list of dicts) _on_message works on
    orig,          \* the payload handed to _on_message, as it was before it
    items,         \* the list the fan-out loop of _on_message iterates
    idx,           \* position of that loop in items
    exc,           \* the exception in flight, None when there is none
    calls,         \* keyword arguments of every call of self.callback
    acks,          \* number of message.ack() calls for the message
    log,           \* logger calls made for the message
    fetches,       \* requests.get calls of _preprocess_message
    fetched,       \* how that request ended: "ok", the exception, or "none"
    resolves,      \* calls of get_long_revision: the URL queried, the outcome
    checked,       \* calls of the policy checks, with their results
    raised,        \* exceptions that reached an except clause, and which
    result,        \* how process_message ended
    routing_key,   \* a routing key given to cc_key_regex.search
    key_match,     \* what the search returned
    environ,       \* os.environ of runtests.py: which variables are set
    run_pc,        \* position of Runner.run_tests
    s3_bucket,     \* self.s3_bucket
    job,           \* the treeherder job of run_tests, None when there is none
    th,            \* the treeherder submission of run_tests
    failed,        \* whether the test command failed
    printed,       \* what run_tests printed about reporting and uploads
    submissions,   \* the job states passed to th.submit_results
    run_exc        \* the exception in flight in run_tests

\* the state of a queue and of the message it handles
queue_vars == <<pulse_config, family, pc, body, message, data, orig, items, idx,
                exc, calls, acks, log, fetches, fetched, resolves, checked,
                raised, result>>

\* the state of one search of a routing key
matcher_vars == <<routing_key, key_match>>

\* the state of one call of Runner.run_tests
runner_vars == <<environ, run_pc, s3_bucket, job, th, failed, printed,
                 submissions, run_exc>>

vars == <<queue_vars, matcher_vars, runner_vars>>

None == "None"

\* JSON values: a dict is a function from its keys, a list is JList of its
\* elements, null (Python None) is JNull
JNull == [null |-> TRUE]
JList(seq) == [list |-> seq]
IsNull(x) == DOMAIN x = {"null"}
IsList(x) == DOMAIN x = {"list"}
IsDict(x) == ~IsNull(x) /\ ~IsList(x)

\* ------------------------------------------------------------- bounds

\* longest list of updates in a funsize manifest
MaxUpdates == 2
\* longest list of locales in a release manifest
MaxLocales == 2
\* most segments between the platform and "balrog" in a routing key
MaxSegments == 2

\* ------------------------------------------------------------ strings

MozillaCentral == <<"mozilla", "-", "central">>
MozillaAurora == <<"mozilla", "-", "aurora">>
ReleaseMozillaBeta == <<"release", "-", "mozilla", "-", "beta">>

Trees == {MozillaCentral, MozillaAurora, ReleaseMozillaBeta}
Products == {"Firefox", "firefox", "thunderbird"}
Platforms == {"linux64", "win32"}
Locales == {"en-US", "de", "ja"}
TagSets == {{}, {"release"}}

ShortRev == "59f372c35b24"
LongRev == "59f372c35b2416ac84d6572d64c49227481a8a6c"

\* str.lower() on the product names of the model
lower(s) ==
    CASE s = "Firefox" -> "firefox"
      [] s = "FIREFOX" -> "firefox"
      [] OTHER -> s

\* str.replace('release-', ''): every occurrence, left to right
RECURSIVE replace_release(_)
replace_release(s) ==
    IF s = <<>> THEN <<>>
    ELSE IF Len(s) >= 2 /\ s[1] = "release" /\ s[2] = "-"
         THEN replace_release(SubSeq(s, 3, Len(s)))
         ELSE <<s[1]>> \o replace_release(Tail(s))

\* str.endswith('-central')
endswith_central(s) ==
    /\ Len(s) >= 2
    /\ s[Len(s) - 1] = "-"
    /\ s[Len(s)] = "central"

\* dict helpers
Has(d, k) == k \in DOMAIN d
Without(d, k) == [f \in DOMAIN d \ {k} |-> d[f]]
With(d, k, v) == [f \in DOMAIN d \cup {k} |-> IF f = k THEN v ELSE d[f]]

\* ------------------------------------------------------- Policy Store

TreePolicy(products, platforms, locales, blacklist, tags) ==
    [products |-> products, platforms |-> platforms, locales |-> locales,
     blacklist |-> blacklist, tags |-> tags]

\* no tree configured: accept-all-trees mode
PolicyEmpty == [t \in {} |-> TreePolicy({}, {}, {}, {}, {})]

PolicyTwoTrees ==
    [t \in {MozillaCentral, ReleaseMozillaBeta} |->
        IF t = MozillaCentral
        THEN TreePolicy({"firefox"}, {"linux64"}, {}, {"ja"}, {})
        ELSE TreePolicy({"firefox"}, {}, {"en-US", "de"}, {"de"}, {"release"})]

PolicyOneTree ==
    [t \in {ReleaseMozillaBeta} |->
        TreePolicy({}, {"win32"}, {"en-US", "ja"}, {}, {})]

Policies == {PolicyEmpty, PolicyTwoTrees, PolicyOneTree}

\* The checks return "True" or "False", or the exception they raise.
Bool(b) == IF b THEN "True" ELSE "False"

\* is_valid_locale with the allowed list taking precedence over the blacklist
is_valid_locale_allowed_first(trees, tree, locale) ==
    IF tree \notin DOMAIN trees THEN "KeyError"
    ELSE Bool(locale \in trees[tree].locales
              \/ (trees[tree].locales = {} /\ locale \notin trees[tree].blacklist))

\* is_valid_locale without its blacklist
is_valid_locale_whitelist_only(trees, tree, locale) ==
    IF tree \notin DOMAIN trees THEN "KeyError"
    ELSE Bool(trees[tree].locales = {} \/ locale \in trees[tree].locales)

is_valid_locale(trees, tree, locale) ==
    IF tree \notin DOMAIN trees THEN "KeyError"
    ELSE LET whitelist == trees[tree].locales
             blacklist == trees[tree].blacklist
         IN  Bool(locale \notin blacklist
                  /\ (whitelist = {} \/ locale \in whitelist))

is_valid_platform(trees, tree, platform) ==
    IF tree \notin DOMAIN trees THEN "KeyError"
    ELSE LET platforms == trees[tree].platforms
         IN  Bool(platforms = {} \/ platform \in platforms)

is_valid_product(trees, tree, product) ==
    IF tree \notin DOMAIN trees THEN "KeyError"
    ELSE LET products == trees[tree].products
         IN  Bool(products = {} \/ product \in products)

\* is_valid_tree without its accept-all mode
is_valid_tree_strict(trees, tree) == Bool(tree \in DOMAIN trees)

is_valid_tree(trees, tree) ==
    Bool(DOMAIN trees = {} \/ tree \in DOMAIN trees)

has_valid_tags(trees, tree, tags) ==
    IF tree \notin DOMAIN trees THEN "KeyError"
    ELSE LET all_tags == trees[tree].tags
         IN  Bool(all_tags = {} \/ all_tags \subseteq tags)

\* a call of a policy check, as recorded in checked
Check(fn, tree, arg, res) == [fn |-> fn, tree |-> tree, arg |-> arg, result |-> res]

\* the exception a failed check makes _on_message raise
Err(v) == IF v = "False" THEN "ValueError" ELSE v

\* ------------------------------------------------- Revision Resolver

\* what the remote lookup can do: answer, time out or refuse the connection,
\* answer with an error status, answer with a body that is not JSON
ResolverOutcomes == {"ok", "ConnectionError", "HTTPError", "ValueError"}

\* the repository path of get_long_revision
revision_repo(repo) ==
    IF repo # MozillaCentral THEN <<"releases", "/">> \o repo ELSE repo

revision_url(repo, revision) ==
    <<"https://hg.mozilla.org/">> \o revision_repo(repo)
        \o <<"/", "json-rev", "/", revision>>

\* the "node" of the changeset the server knows under that revision
Node(revision) == IF revision = ShortRev THEN LongRev ELSE revision

\* get_long_revision with a failed lookup passed over: the revision is
\* returned as it was given
get_long_revision_swallowed(repo, revision, outcome) ==
    [exc |-> None, value |-> IF outcome = "ok" THEN Node(revision) ELSE revision]

\* get_long_revision: [exc, value]
get_long_revision(repo, revision, outcome) ==
    IF outcome = "ok"
    THEN [exc |-> None, value |-> Node(revision)]
    ELSE [exc |-> outcome, value |-> None]

\* what self.callback can do
CallbackOutcomes == {"return", "raise"}

\* ---------------------------------------------- NormalizedBuildQueue

\* what _on_message leaves behind: the exception it raises (None when it
\* returns), the dict it worked on, the checks, resolver calls and callback
\* calls it made
Outcome(e, d, chk, res, cls) ==
    [exc |-> e, data |-> d, checked |-> chk, resolves |-> res, calls |-> cls]

build_repo(tree, branch) ==
    <<"http://hg.mozilla.org/">>
        \o (IF ~endswith_central(tree) THEN <<"releases", "/">> ELSE <<>>)
        \o branch

\* the keys of the payload that build_properties reads before the revision
\* is resolved, and after
BuildKeysBefore(d) ==
    {"buildid"} \cup (IF d["locale"] = "en-US" THEN {"buildurl"} ELSE {})
        \cup {"revision"}
BuildKeysAfter == {"status", "test_packages_url", "version"}

\* build_properties with the build URL kept for every locale
build_properties_keep_url(d, revision) ==
    [allowed_testruns |-> <<"functional">>,
     branch |-> d["branch"],
     buildid |-> d["buildid"],
     build_number |-> IF Has(d, "build_number") THEN d["build_number"] ELSE None,
     build_url |-> IF Has(d, "buildurl") THEN d["buildurl"] ELSE None,
     locale |-> d["locale"],
     platform |-> d["platform"],
     product |-> lower(d["product"]),
     repository |-> d["repo"],
     revision |-> revision,
     status |-> d["status"],
     tags |-> d["tags"],
     test_packages_url |-> d["test_packages_url"],
     tree |-> d["tree"],
     version |-> d["version"],
     raw_json |-> d]

build_properties(d, revision) ==
    [allowed_testruns |-> <<"functional">>,
     branch |-> d["branch"],
     buildid |-> d["buildid"],
     build_number |-> IF Has(d, "build_number") THEN d["build_number"] ELSE None,
     build_url |-> IF d["locale"] = "en-US" THEN d["buildurl"] ELSE None,
     locale |-> d["locale"],
     platform |-> d["platform"],
     product |-> lower(d["product"]),
     repository |-> d["repo"],
     revision |-> revision,
     status |-> d["status"],
     tags |-> d["tags"],
     test_packages_url |-> d["test_packages_url"],
     tree |-> d["tree"],
     version |-> d["version"],
     raw_json |-> d]

\* NormalizedBuildQueue._on_message(data); rr is what the revision lookup
\* does and cb what the callback does, when they are reached
build_on_message(trees, d, rr, cb) ==
    LET tree == d["tree"]
        v1 == is_valid_tree(trees, tree)
        c1 == <<Check("is_valid_tree", tree, tree, v1)>>
        v2 == is_valid_product(trees, tree, lower(d["product"]))
        c2 == c1 \o <<Check("is_valid_product", tree, lower(d["product"]), v2)>>
        v3 == is_valid_platform(trees, tree, d["platform"])
        c3 == c2 \o <<Check("is_valid_platform", tree, d["platform"], v3)>>
        v4 == has_valid_tags(trees, tree, d["tags"])
        c4 == c3 \o <<Check("has_valid_tags", tree, d["tags"], v4)>>
        v5 == is_valid_locale(trees, tree, d["locale"])
        c5 == c4 \o <<Check("is_valid_locale", tree, d["locale"], v5)>>
        branch == replace_release(tree)
        d1 == With(With(d, "branch", branch), "repo", build_repo(tree, branch))
        rev == get_long_revision(tree, d["revision"], rr)
        url == <<[url |-> revision_url(tree, d["revision"]), outcome |-> rr]>>
        props == build_properties(d1, rev.value)
    IN
    IF ~Has(d, "tree") THEN Outcome("KeyError", d, <<>>, <<>>, <<>>)
    ELSE IF v1 # "True" THEN Outcome(Err(v1), d, c1, <<>>, <<>>)
    ELSE IF ~Has(d, "product") THEN Outcome("KeyError", d, c1, <<>>, <<>>)
    ELSE IF v2 # "True" THEN Outcome(Err(v2), d, c2, <<>>, <<>>)
    ELSE IF ~Has(d, "platform") THEN Outcome("KeyError", d, c2, <<>>, <<>>)
    ELSE IF v3 # "True" THEN Outcome(Err(v3), d, c3, <<>>, <<>>)
    ELSE IF ~Has(d, "tags") THEN Outcome("KeyError", d, c3, <<>>, <<>>)
    ELSE IF v4 # "True" THEN Outcome(Err(v4), d, c4, <<>>, <<>>)
    ELSE IF ~Has(d, "locale") THEN Outcome("KeyError", d, c4, <<>>, <<>>)
    ELSE IF v5 # "True" THEN Outcome(Err(v5), d, c5, <<>>, <<>>)
    ELSE IF ~(BuildKeysBefore(d) \subseteq DOMAIN d)
         THEN Outcome("KeyError", d1, c5, <<>>, <<>>)
    ELSE IF rev.exc # None THEN Outcome(rev.exc, d1, c5, url, <<>>)
    ELSE IF ~(BuildKeysAfter \subseteq DOMAIN d)
         THEN Outcome("KeyError", d1, c5, url, <<>>)
    ELSE Outcome(IF cb = "raise" THEN "CallbackError" ELSE None,
                 d1, c5, url, <<props>>)

\* NormalizedBuildQueue._preprocess_message: [exc, value, fetches]
Preprocessed(e, v, n) == [exc |-> e, value |-> v, fetches |-> n]

build_preprocess_message(b) ==
    Preprocessed(None, IF Has(b, "payload") THEN b["payload"] ELSE b, 0)

\* the messages of exchange/build/normalized
BuildPayload(tree, product, platform, tags, locale, revision) ==
    [tree |-> tree, product |-> product, platform |-> platform, tags |-> tags,
     locale |-> locale, revision |-> revision, buildid |-> "20160412030241",
     build_number |-> "2", buildurl |-> "http://archive/firefox.tar.bz2",
     status |-> "0", test_packages_url |-> "http://archive/test_packages.json",
     version |-> "48.0a1"]

BuildKeys == DOMAIN BuildPayload(MozillaCentral, "Firefox", "linux64", {}, "de", ShortRev)

BuildPayloads ==
    { BuildPayload(t, p, pl, tg, l, r) :
        t \in Trees, p \in {"Firefox", "thunderbird"}, pl \in Platforms,
        tg \in TagSets, l \in Locales, r \in {ShortRev} }
    \cup { BuildPayload(MozillaCentral, "firefox", "linux64", {}, l, LongRev) :
             l \in Locales }
    \cup { Without(BuildPayload(MozillaCentral, "firefox", "linux64", {}, l, ShortRev), k) :
             l \in {"en-US", "de"}, k \in BuildKeys }

BuildBodies ==
    BuildPayloads \cup { [payload |-> p, _meta |-> "meta"] : p \in BuildPayloads }

\* ------------------------------------------------ Routing-Key Matcher

\* "a.b.c" from its words, each a sequence of tokens
RECURSIVE Dotted(_)
Dotted(words) ==
    IF words = <<>> THEN <<>>
    ELSE IF Len(words) = 1 THEN words[1]
    ELSE words[1] \o <<".">> \o Dotted(Tail(words))

W(word) == <<word>>

\* index.funsize.v1.<tree>.latest.<platform>.4.5.balrog
FunsizeKey(tree, platform) ==
    Dotted(<<W("index"), W("funsize"), W("v1"), tree, W("latest"),
             W(platform), W("4"), W("5"), W("balrog")>>)
\* the same key without its last segment
FunsizeKeyNoBalrog(tree, platform) ==
    Dotted(<<W("index"), W("funsize"), W("v1"), tree, W("latest"),
             W(platform), W("4"), W("5")>>)
\* route.index.releases.v1.<tree>.latest.firefox.latest.beetmover.en_US.win64
ReleaseKey(tree) ==
    Dotted(<<W("route"), W("index"), W("releases"), W("v1"), tree, W("latest"),
             W("firefox"), W("latest"), W("beetmover"), W("en_US"), W("win64")>>)
OtherKey == Dotted(<<W("route"), W("project"), W("other")>>)

\* the words of the model that contain "funsize", start with "balrog" or
\* "beetmover", end with "releases"
has_funsize(tok) == tok \in {"funsize", "xfunsizex"}
starts_balrog(tok) == tok \in {"balrog", "balrogs"}
starts_beetmover(tok) == tok \in {"beetmover", "beetmovers"}
ends_releases(tok) == tok \in {"releases", "prereleases"}

\* key[i..] starts with the tokens of lit
At(key, i, lit) ==
    /\ i >= 1
    /\ i + Len(lit) - 1 <= Len(key)
    /\ \A n \in 1..Len(lit) : key[i + n - 1] = lit[n]

\* "\.balrog" somewhere at or after position i
BalrogFrom(key, i) ==
    \E q \in i..(Len(key) - 1) : key[q] = "." /\ starts_balrog(key[q + 1])

\* positions <<i, j, k, p>> of a match of FunsizeTaskCompletedQueue.cc_key_regex:
\* "funsize" in token i, "\.v1\." at j, "\.latest\." at k, the platform from
\* k + 3 up to the "." at p, "\.balrog" after p
FunsizeMatches(key) ==
    LET N == 1..Len(key)
        I == {i \in N : has_funsize(key[i])}
        J == {j \in N : At(key, j, <<".", "v1", ".">>)}
        K == {k \in N : At(key, k, <<".", "latest", ".">>)}
        P == {p \in N : key[p] = "." /\ BalrogFrom(key, p + 1)}
    IN  { m \in I \X J \X K \X P :
            /\ m[2] > m[1]
            /\ m[3] >= m[2] + 3
            /\ m[4] >= m[3] + 3 }

Max(S) == CHOOSE x \in S : \A y \in S : y <= x
Min(S) == CHOOSE x \in S : \A y \in S : x <= y

\* the groups with a greedy platform group, "(?P<platform>.*)"
funsize_groups_greedy_platform(key, M) ==
    LET i == Max({m[1] : m \in M})
        j == Max({m[2] : m \in {x \in M : x[1] = i}})
        k == Max({m[3] : m \in {x \in M : x[1] = i /\ x[2] = j}})
        p == Max({m[4] : m \in {x \in M : x[1] = i /\ x[2] = j /\ x[3] = k}})
    IN  IF M = {} THEN JNull
        ELSE [tree |-> SubSeq(key, j + 3, k - 1),
              platform |-> SubSeq(key, k + 3, p - 1)]

\* the groups of the match the regex engine finds among the matches M:
\* ".*" is greedy (the last position that lets the rest match), ".*?" lazy
funsize_groups(key, M) ==
    LET i == Max({m[1] : m \in M})
        j == Max({m[2] : m \in {x \in M : x[1] = i}})
        k == Max({m[3] : m \in {x \in M : x[1] = i /\ x[2] = j}})
        p == Min({m[4] : m \in {x \in M : x[1] = i /\ x[2] = j /\ x[3] = k}})
    IN  IF M = {} THEN JNull
        ELSE [tree |-> SubSeq(key, j + 3, k - 1),
              platform |-> SubSeq(key, k + 3, p - 1)]

\* cc_key_regex.search(routing_key) of the funsize queue: JNull, or the groups
funsize_search(key) == funsize_groups(key, FunsizeMatches(key))

\* a matched group as the string the policy lists hold: the platforms of the
\* model are single words, so a group of several tokens, or none, is a
\* string that no list holds
as_word(tokens) == IF Len(tokens) = 1 THEN tokens[1] ELSE "<several tokens>"

\* cc_key_regex.search(key) of the release queue matches
release_search(key) ==
    \E i \in 1..Len(key) :
        /\ ends_releases(key[i])
        /\ At(key, i + 1, <<".", "v1", ".">>)
        /\ \E k \in (i + 4)..Len(key) :
              /\ At(key, k, <<".", "latest", ".", "firefox", ".", "latest", ".">>)
              /\ k + 7 <= Len(key)
              /\ starts_beetmover(key[k + 7])

\* positions <<i, k>> of a match of ReleaseTaskCompletedQueue.cc_key_regex:
\* "releases" at the end of token i, "\.latest\.firefox\.latest\.beetmover"
\* at k
ReleaseMatches(key) ==
    { m \in (1..Len(key)) \X (1..Len(key)) :
        /\ ends_releases(key[m[1]])
        /\ At(key, m[1] + 1, <<".", "v1", ".">>)
        /\ m[2] >= m[1] + 4
        /\ At(key, m[2], <<".", "latest", ".", "firefox", ".", "latest", ".">>)
        /\ m[2] + 7 <= Len(key)
        /\ starts_beetmover(key[m[2] + 7]) }

\* the group 'tree' of the match the regex engine finds among the matches M
\* (both ".*" greedy), JNull when there is no match
release_group_tree(key, M) ==
    LET i == Max({m[1] : m \in M})
        k == Max({m[2] : m \in {x \in M : x[1] = i}})
    IN  IF M = {} THEN JNull ELSE [tree |-> SubSeq(key, i + 4, k - 1)]

release_tree(key) == release_group_tree(key, ReleaseMatches(key))

\* ----------------------------------------- FunsizeTaskCompletedQueue

\* a kombu message with its carbon-copy routing keys
Message(cc) == [headers |-> [CC |-> cc]]

\* the except clauses around one element with "except Exception" left out
element_clause_value_only(e) == IF e = "ValueError" THEN "info" ELSE "uncaught"

\* the body of the loop with no try statement around it
element_clause_none(e) == "uncaught"

\* the except clauses around one element of a fan-out: the logger call that
\* handles the exception
element_clause(e) == IF e = "ValueError" THEN "info" ELSE "exception"

\* one turn of the loop over message.headers['CC'], match being the result
\* of the search: the ValueError it raises (None when the loop goes on), the
\* checks and the logger calls it makes
funsize_cc_match(trees, match) ==
    LET tree == match.tree
        platform == as_word(match.platform)
        v1 == is_valid_tree(trees, tree)
        c1 == <<Check("is_valid_tree", tree, tree, v1)>>
        v2 == is_valid_platform(trees, tree, platform)
        c2 == c1 \o <<Check("is_valid_platform", tree, platform, v2)>>
        R(e, chk, lg) == [exc |-> e, checked |-> chk, log |-> lg]
    IN
    IF IsNull(match) THEN R(None, <<>>, <<>>)
    ELSE IF v1 = "False" THEN R("ValueError", c1, <<"debug">>)
    ELSE IF v2 = "False" THEN R("ValueError", c2, <<"debug">>)
    ELSE IF v2 = "KeyError" THEN R(None, c2, <<"debug", "exception">>)
    ELSE R(None, c2, <<"debug">>)

funsize_cc_key(trees, key) == funsize_cc_match(trees, funsize_search(key))

RECURSIVE Flatten(_)
Flatten(qs) == IF qs = <<>> THEN <<>> ELSE qs[1] \o Flatten(Tail(qs))

\* the loop ends with the first turn that raises. [exc, checked, log]
funsize_cc_turns(turns) ==
    LET raising == {n \in 1..Len(turns) : turns[n].exc # None}
        last == IF raising = {} THEN Len(turns) ELSE Min(raising)
    IN  [exc |-> IF raising = {} THEN None ELSE "ValueError",
         checked |-> Flatten([n \in 1..last |-> turns[n].checked]),
         log |-> Flatten([n \in 1..last |-> turns[n].log])]

\* the loop over message.headers['CC']
funsize_cc(trees, keys) ==
    funsize_cc_turns([n \in 1..Len(keys) |-> funsize_cc_key(trees, keys[n])])

\* what requests.get and the reading of its response can do other than to
\* deliver a JSON document: no connection or a timeout, an error status, a
\* body that is not JSON
FetchFailures == {"ConnectionError", "HTTPError", "ValueError"}

\* an answer of the remote service: a failure, or the JSON document
Failed(e) == [error |-> e]
Answer(doc) == [json |-> doc]

\* FunsizeTaskCompletedQueue._preprocess_message after the loop over the
\* routing keys, of which cc is the result
funsize_fetch(cc, b, resp) ==
    LET R(e, v, n) == [exc |-> e, value |-> v, fetches |-> n,
                       checked |-> cc.checked, log |-> cc.log]
    IN
    IF cc.exc # None THEN R(cc.exc, JNull, 0)
    ELSE IF IsNull(b) THEN R("TypeError", JNull, 0)
    ELSE IF ~(IsDict(b) /\ Has(b, "workerId")) THEN R(None, b, 0)
    ELSE IF ~(Has(b, "status") /\ Has(b["status"], "taskId"))
         THEN R("KeyError", JNull, 0)
    ELSE IF Has(resp, "error") THEN R(resp["error"], JNull, 1)
    ELSE R(None, resp["json"], 1)

\* FunsizeTaskCompletedQueue._preprocess_message(body, message); resp is
\* what the artifact store answers: a failure or the manifest.
\* [exc, value, fetches, checked, log]
funsize_preprocess_message(trees, b, msg, resp) ==
    funsize_fetch(IF IsNull(msg)
                  THEN [exc |-> None, checked |-> <<>>, log |-> <<>>]
                  ELSE funsize_cc(trees, msg.headers.CC),
                  b, resp)

update_properties(u) ==
    [allowed_testruns |-> <<"update">>,
     branch |-> u["branch"],
     buildid |-> u["from_buildid"],
     locale |-> u["locale"],
     platform |-> u["platform"],
     product |-> lower(u["appName"]),
     repository |-> u["repo"],
     revision |-> u["revision"],
     target_buildid |-> u["to_buildid"],
     target_version |-> u["version"],
     tree |-> u["branch"],
     update_number |-> u["update_number"],
     raw_json |-> u]

UpdateKeys ==
    {"from_buildid", "repo", "revision", "to_buildid", "version", "update_number"}

\* the body of the loop of FunsizeTaskCompletedQueue._on_message for one
\* update, before its except clauses: the exception raised, the checks and
\* the callback calls made
funsize_update(trees, u, cb) ==
    LET tree == u["branch"]
        v1 == is_valid_tree(trees, tree)
        c1 == <<Check("is_valid_tree", tree, tree, v1)>>
        v2 == is_valid_product(trees, tree, lower(u["appName"]))
        c2 == c1 \o <<Check("is_valid_product", tree, lower(u["appName"]), v2)>>
        v3 == is_valid_platform(trees, tree, u["platform"])
        c3 == c2 \o <<Check("is_valid_platform", tree, u["platform"], v3)>>
        v4 == is_valid_locale(trees, tree, u["locale"])
        c4 == c3 \o <<Check("is_valid_locale", tree, u["locale"], v4)>>
        R(e, chk, cls) == [exc |-> e, checked |-> chk, calls |-> cls]
    IN
    IF ~Has(u, "branch") THEN R("KeyError", <<>>, <<>>)
    ELSE IF v1 # "True" THEN R(Err(v1), c1, <<>>)
    ELSE IF ~Has(u, "appName") THEN R("KeyError", c1, <<>>)
    ELSE IF v2 # "True" THEN R(Err(v2), c2, <<>>)
    ELSE IF ~Has(u, "platform") THEN R("KeyError", c2, <<>>)
    ELSE IF v3 # "True" THEN R(Err(v3), c3, <<>>)
    ELSE IF ~Has(u, "locale") THEN R("KeyError", c3, <<>>)
    ELSE IF v4 # "True" THEN R(Err(v4), c4, <<>>)
    ELSE IF ~(UpdateKeys \subseteq DOMAIN u) THEN R("KeyError", c4, <<>>)
    ELSE R(IF cb = "raise" THEN "CallbackError" ELSE None, c4,
           <<update_properties(u)>>)

\* the entry of FunsizeTaskCompletedQueue._on_message: the list to iterate
\* the loop of _on_message over the list from its end
funsize_items_reversed(d) ==
    IF IsList(d)
    THEN [n \in 1..Len(d["list"]) |-> d["list"][Len(d["list"]) + 1 - n]]
    ELSE <<d>>

\* the loop of _on_message without the wrapping of a dict
funsize_items_lists_only(d) == IF IsList(d) THEN d["list"] ELSE <<>>

funsize_items(d) == IF IsList(d) THEN d["list"] ELSE <<d>>

\* the updates of a funsize manifest
Update(tree, appName, platform, locale) ==
    [branch |-> tree, appName |-> appName, platform |-> platform,
     locale |-> locale, from_buildid |-> "20160411030241",
     to_buildid |-> "20160412030241", repo |-> "https://hg.mozilla.org/repo",
     revision |-> LongRev, version |-> "48.0a1", update_number |-> "1"]

GoodUpdate == Update(MozillaCentral, "Firefox", "linux64", "en-US")

Updates ==
    { GoodUpdate,
      Update(MozillaCentral, "Firefox", "linux64", "ja"),
      Update(MozillaCentral, "Firefox", "win32", "en-US"),
      Update(MozillaAurora, "Firefox", "linux64", "en-US"),
      Update(ReleaseMozillaBeta, "thunderbird", "win32", "en-US"),
      Update(ReleaseMozillaBeta, "Firefox", "win32", "en-US"),
      Without(GoodUpdate, "locale"),
      Without(GoodUpdate, "update_number"),
      With(GoodUpdate, "revision", ShortRev) }

RECURSIVE SeqsUpTo(_, _)
SeqsUpTo(S, n) ==
    IF n = 0 THEN {<<>>}
    ELSE LET shorter == SeqsUpTo(S, n - 1)
         IN  shorter \cup {Append(q, x) : q \in shorter, x \in S}

\* what the manifest of a funsize task can be
FunsizeManifests ==
    Updates \cup {JList(q) : q \in SeqsUpTo(Updates, MaxUpdates)} \cup {JNull}

\* a task-completed message of the taskcluster queue
TaskBody == [workerId |-> "worker-1", status |-> [taskId |-> "task-1",
             runs |-> <<[scheduled |-> "2016-04-12T03:02:41.000Z"]>>]]
TaskBodyNoRuns == [workerId |-> "worker-1", status |-> [taskId |-> "task-1",
                   runs |-> <<>>]]
TaskBodyNoStatus == [workerId |-> "worker-1"]

FunsizeMessages ==
    { JNull, Message(<<>>),
      Message(<<FunsizeKey(MozillaCentral, "linux64")>>),
      Message(<<FunsizeKey(MozillaCentral, "win32")>>),
      Message(<<OtherKey, FunsizeKey(MozillaAurora, "linux64")>>),
      Message(<<FunsizeKeyNoBalrog(MozillaCentral, "linux64")>>),
      Message(<<FunsizeKey(ReleaseMozillaBeta, "win32"), OtherKey>>),
      Message(<<ReleaseKey(<<"mozilla", "-", "beta">>)>>) }

\* the deliveries to the funsize queue: <<body, message>>
FunsizeDeliveries ==
    ({TaskBody, TaskBodyNoStatus} \X FunsizeMessages)
    \cup (FunsizeManifests \X {JNull, Message(<<FunsizeKey(MozillaCentral, "linux64")>>)})
    \cup ({GoodUpdate} \X FunsizeMessages)

\* ----------------------------------------- ReleaseTaskCompletedQueue

\* datetime.strptime(scheduled, '%Y-%m-%dT%H:%M:%S.%fZ').strftime('%Y%m%d%H%M'),
\* None when the string does not parse
scheduled_buildid(scheduled) ==
    IF scheduled = "2016-04-12T03:02:41.000Z" THEN "201604120302" ELSE None

\* the buildid synthesized from body['status']['runs'][-1]['scheduled'];
\* any failure is passed over and leaves the manifest as it is
with_buildid(manifest, b) ==
    LET runs == b["status"]["runs"] IN
    IF ~Has(b["status"], "runs") \/ runs = <<>> THEN manifest
    ELSE IF ~Has(runs[Len(runs)], "scheduled") THEN manifest
    ELSE IF scheduled_buildid(runs[Len(runs)]["scheduled"]) = None THEN manifest
    ELSE With(manifest, "buildid", scheduled_buildid(runs[Len(runs)]["scheduled"]))

\* response.json().get('extra', {}).get('build_props')
build_props(doc) ==
    IF ~Has(doc, "extra") THEN JNull
    ELSE IF ~Has(doc["extra"], "build_props") THEN JNull
    ELSE doc["extra"]["build_props"]

\* ReleaseTaskCompletedQueue._preprocess_message(body, message); resp is
\* what the task service answers: a failure or the task document
release_preprocess_message(b, msg, resp) ==
    LET R(e, v, n) == [exc |-> e, value |-> v, fetches |-> n,
                       checked |-> <<>>, log |-> IF IsNull(msg) THEN <<>> ELSE <<"debug">>]
        manifest == build_props(resp["json"])
        faked == With(With(manifest, "tree", <<"release", "-">> \o manifest["branch"]),
                      "product", "firefox")
    IN
    IF ~IsNull(msg) /\ ~(\E n \in 1..Len(msg.headers.CC) :
                            release_search(msg.headers.CC[n]))
    THEN R("ValueError", JNull, 0)
    ELSE IF IsNull(b) THEN R("TypeError", JNull, 0)
    ELSE IF ~Has(b, "workerId") THEN R(None, b, 0)
    ELSE IF ~(Has(b, "status") /\ Has(b["status"], "taskId"))
         THEN R("KeyError", JNull, 0)
    ELSE IF Has(resp, "error") THEN R(resp["error"], JNull, 1)
    ELSE IF IsNull(manifest) THEN R("TypeError", JNull, 1)
    ELSE IF ~Has(manifest, "branch") THEN R("KeyError", JNull, 1)
    ELSE R(None, with_buildid(faked, b), 1)

release_properties(d, tree, locale) ==
    [allowed_testruns |-> <<"functional">>,
     branch |-> d["branch"],
     buildid |-> d["buildid"],
     locale |-> locale,
     platform |-> d["platform"],
     product |-> d["product"],
     revision |-> d["revision"],
     tree |-> tree,
     version |-> d["version"],
     raw_json |-> d]

ReleaseKeys == {"branch", "buildid", "revision", "version"}

\* _handle_locale(locale) of ReleaseTaskCompletedQueue._on_message, before
\* its except clauses
release_handle_locale(trees, d, locale, cb) ==
    LET tree == d["tree"]
        v == is_valid_locale(trees, tree, locale)
        c == <<Check("is_valid_locale", tree, locale, v)>>
        R(e, chk, cls) == [exc |-> e, checked |-> chk, calls |-> cls]
    IN
    IF v # "True" THEN R(Err(v), c, <<>>)
    ELSE IF ~(ReleaseKeys \subseteq DOMAIN d) THEN R("KeyError", c, <<>>)
    ELSE R(IF cb = "raise" THEN "CallbackError" ELSE None, c,
           <<release_properties(d, tree, locale)>>)

\* ReleaseTaskCompletedQueue._on_message(data) up to its fan-out: the
\* exception raised, the checks made, the dict as the pop of 'locales'
\* leaves it and the locales to handle
release_on_message(trees, d) ==
    LET tree == d["tree"]
        v1 == is_valid_tree(trees, tree)
        c1 == <<Check("is_valid_tree", tree, tree, v1)>>
        v2 == is_valid_product(trees, tree, lower(d["product"]))
        c2 == c1 \o <<Check("is_valid_product", tree, lower(d["product"]), v2)>>
        v3 == is_valid_platform(trees, tree, d["platform"])
        c3 == c2 \o <<Check("is_valid_platform", tree, d["platform"], v3)>>
        R(e, chk, dd, its) == [exc |-> e, checked |-> chk, data |-> dd, items |-> its]
    IN
    IF IsNull(d) THEN R("TypeError", <<>>, d, <<>>)
    ELSE IF ~Has(d, "tree") THEN R("KeyError", <<>>, d, <<>>)
    ELSE IF v1 # "True" THEN R(Err(v1), c1, d, <<>>)
    ELSE IF ~Has(d, "product") THEN R("KeyError", c1, d, <<>>)
    ELSE IF v2 # "True" THEN R(Err(v2), c2, d, <<>>)
    ELSE IF ~Has(d, "platform") THEN R("KeyError", c2, d, <<>>)
    ELSE IF v3 # "True" THEN R(Err(v3), c3, d, <<>>)
    ELSE IF Has(d, "locale") THEN R(None, c3, d, <<d["locale"]>>)
    ELSE IF Has(d, "locales") THEN R(None, c3, Without(d, "locales"), d["locales"])
    ELSE R(None, c3, d, <<>>)

\* the payloads of a release (beetmover) task
ReleasePayload(tree, product, platform) ==
    [tree |-> tree, product |-> product, platform |-> platform,
     branch |-> replace_release(tree), buildid |-> "201604120302",
     revision |-> LongRev, version |-> "46.0b9"]

GoodRelease == ReleasePayload(ReleaseMozillaBeta, "firefox", "win32")

ReleasePayloads ==
    { With(ReleasePayload(t, p, pl), "locales", ls) :
        t \in Trees, p \in {"firefox", "Firefox"}, pl \in Platforms,
        ls \in SeqsUpTo(Locales, MaxLocales) }
    \cup { With(ReleasePayload(t, p, "win32"), "locale", l) :
             t \in Trees, p \in {"firefox", "Firefox"}, l \in Locales }
    \cup { Without(With(GoodRelease, "locales", <<"en-US", "ja">>), k) :
             k \in DOMAIN GoodRelease \cup {"locales"} }
    \cup { With(With(GoodRelease, "locale", "en-US"), "revision", ShortRev) }

\* the task documents of the task service
TaskDocs ==
    { [extra |-> [build_props |-> bp]] :
        bp \in { Without(With(ReleasePayload(ReleaseMozillaBeta, "firefox", pl),
                              "locales", ls), k) :
                    pl \in Platforms, ls \in {<<"en-US">>, <<"ja", "en-US">>},
                    k \in {"tree", "buildid", "branch"} } }
    \cup { [extra |-> [treeherder |-> "th"]], [task |-> "t"] }

ReleaseMessages ==
    { JNull, Message(<<>>),
      Message(<<ReleaseKey(<<"mozilla", "-", "beta">>)>>),
      Message(<<OtherKey, ReleaseKey(MozillaAurora)>>),
      Message(<<FunsizeKey(MozillaCentral, "linux64")>>),
      Message(<<OtherKey>>) }

\* the deliveries to the release queue: <<body, message>>
ReleaseDeliveries ==
    ({TaskBody, TaskBodyNoRuns, TaskBodyNoStatus} \X ReleaseMessages)
    \cup (ReleasePayloads \X {JNull, Message(<<ReleaseKey(<<"mozilla", "-", "beta">>)>>)})
    \cup ({With(GoodRelease, "locales", <<"en-US", "ja">>)} \X ReleaseMessages)

\* the deliveries to the build queue: <<body, message>>
BuildDeliveries == BuildBodies \X {JNull, Message(<<>>)}

\* ------------------------------------------------------- PulseQueue

Families == {"build", "funsize", "release"}

Deliveries(f) ==
    CASE f = "build" -> BuildDeliveries
      [] f = "funsize" -> FunsizeDeliveries
      [] f = "release" -> ReleaseDeliveries

\* what the secondary fetch of a family can answer
Responses(f) ==
    LET failures == {Failed(e) : e \in FetchFailures} IN
    CASE f = "build" -> failures
      [] f = "funsize" -> failures \cup {Answer(m) : m \in FunsizeManifests}
      [] f = "release" -> failures \cup {Answer(t) : t \in TaskDocs}

\* the except clauses of process_message with "except Exception" left out
except_clause_value_only(e) == IF e = "ValueError" THEN "debug" ELSE "uncaught"

\* the except clauses of process_message: the logger call that handles the
\* exception
except_clause(e) == IF e = "ValueError" THEN "debug" ELSE "exception"

\* a queue of one of the three classes, constructed with a policy and a
\* callback, waits for its first message
QueueInit ==
    /\ pulse_config \in Policies
    /\ family \in Families
    /\ pc = "Subscribed"
    /\ body = JNull
    /\ message = JNull
    /\ data = JNull
    /\ orig = JNull
    /\ items = <<>>
    /\ idx = 1
    /\ exc = None
    /\ calls = <<>>
    /\ acks = 0
    /\ log = <<>>
    /\ fetches = 0
    /\ fetched = "none"
    /\ resolves = <<>>
    /\ checked = <<>>
    /\ raised = <<>>
    /\ result = "none"

\* no routing key is being searched
MatcherIdle ==
    /\ routing_key = JNull
    /\ key_match = JNull

\* run_tests is not running
RunnerIdle ==
    /\ environ = JNull
    /\ run_pc = "none"
    /\ s3_bucket = JNull
    /\ job = JNull
    /\ th = JNull
    /\ failed = FALSE
    /\ printed = <<>>
    /\ submissions = <<>>
    /\ run_exc = None

Init ==
    /\ QueueInit
    /\ MatcherIdle
    /\ RunnerIdle

\* the bus client calls process_message(body, message)
Deliver ==
    /\ pc = "Subscribed"
    /\ \E d \in Deliveries(family) :
         /\ body' = d[1]
         /\ message' = d[2]
    /\ pc' = "preprocess"
    /\ data' = JNull
    /\ orig' = JNull
    /\ items' = <<>>
    /\ idx' = 1
    /\ exc' = None
    /\ calls' = <<>>
    /\ acks' = 0
    /\ log' = <<"debug">>
    /\ fetches' = 0
    /\ resolves' = <<>>
    /\ checked' = <<>>
    /\ raised' = <<>>
    /\ result' = "none"
    /\ UNCHANGED <<matcher_vars, runner_vars, fetched, pulse_config, family>>

preprocess_message(f, trees, b, msg, resp) ==
    CASE f = "build" ->
            [exc |-> None, value |-> build_preprocess_message(b).value,
             fetches |-> 0, checked |-> <<>>, log |-> <<>>]
      [] f = "funsize" -> funsize_preprocess_message(trees, b, msg, resp)
      [] f = "release" -> release_preprocess_message(b, msg, resp)

\* the answers the remote service can give to the requests that
\* _preprocess_message makes: a single one, never read, when it makes none
Answers(f, trees, b, msg) ==
    IF preprocess_message(f, trees, b, msg, Failed("ConnectionError")).fetches = 0
    THEN {Failed("ConnectionError")}
    ELSE Responses(f)

\* preprocessed_body = self._preprocess_message(body, message)
Preprocess ==
    /\ pc = "preprocess"
    /\ \E resp \in Answers(family, pulse_config, body, message) :
         LET r == preprocess_message(family, pulse_config, body, message, resp) IN
         /\ data' = r.value
         /\ orig' = r.value
         /\ exc' = r.exc
         /\ fetches' = r.fetches
         /\ fetched' = IF r.fetches = 0 THEN "none"
                       ELSE IF Has(resp, "error") THEN resp["error"] ELSE "ok"
         /\ checked' = r.checked
         /\ log' = log \o r.log
         /\ pc' = IF r.exc # None THEN "except" ELSE "on_message"
    /\ UNCHANGED <<matcher_vars, runner_vars, pulse_config, family, body, message, items, idx, calls,
                   acks, resolves, raised, result>>

\* self._on_message(preprocessed_body) of NormalizedBuildQueue
BuildOnMessage ==
    /\ pc = "on_message"
    /\ family = "build"
    /\ \E rr \in ResolverOutcomes, cb \in CallbackOutcomes :
         LET r == build_on_message(pulse_config, data, rr, cb) IN
         /\ data' = r.data
         /\ exc' = r.exc
         /\ checked' = checked \o r.checked
         /\ resolves' = r.resolves
         /\ calls' = r.calls
         /\ pc' = IF r.exc # None THEN "except" ELSE "finally"
    /\ UNCHANGED <<matcher_vars, runner_vars, fetched, pulse_config, family, body, message, orig, items, idx,
                   acks, log, fetches, raised, result>>

\* the entry of self._on_message of FunsizeTaskCompletedQueue, up to its loop
FunsizeOnMessage ==
    /\ pc = "on_message"
    /\ family = "funsize"
    /\ IF IsNull(data)
       THEN /\ exc' = "TypeError"
            /\ pc' = "except"
            /\ items' = <<>>
       ELSE /\ exc' = None
            /\ items' = funsize_items(data)
            /\ pc' = IF funsize_items(data) = <<>> THEN "finally" ELSE "loop"
    /\ idx' = 1
    /\ UNCHANGED <<matcher_vars, runner_vars, fetched, pulse_config, family, body, message, data, orig, calls,
                   acks, log, fetches, resolves, checked, raised, result>>

\* one turn of the loop of FunsizeTaskCompletedQueue._on_message
FunsizeUpdate ==
    /\ pc = "loop"
    /\ family = "funsize"
    /\ \E cb \in CallbackOutcomes :
         LET r == funsize_update(pulse_config, items[idx], cb)
             clause == IF r.exc = None THEN None ELSE element_clause(r.exc)
         IN
         /\ checked' = checked \o r.checked
         /\ calls' = calls \o r.calls
         /\ log' = IF clause \in {"info", "exception"} THEN Append(log, clause) ELSE log
         /\ raised' = IF clause \in {"info", "exception"}
                      THEN Append(raised, [exc |-> r.exc, at |-> "element"])
                      ELSE raised
         /\ exc' = IF clause = "uncaught" THEN r.exc ELSE None
         /\ pc' = IF clause = "uncaught" THEN "except"
                  ELSE IF idx = Len(items) THEN "finally" ELSE "loop"
    /\ idx' = idx + 1
    /\ UNCHANGED <<matcher_vars, runner_vars, fetched, pulse_config, family, body, message, data, orig, items,
                   acks, fetches, resolves, result>>

\* self._on_message of ReleaseTaskCompletedQueue, up to its fan-out
ReleaseOnMessage ==
    /\ pc = "on_message"
    /\ family = "release"
    /\ LET r == release_on_message(pulse_config, data) IN
         /\ data' = r.data
         /\ items' = r.items
         /\ exc' = r.exc
         /\ checked' = checked \o r.checked
         /\ pc' = IF r.exc # None THEN "except"
                  ELSE IF r.items = <<>> THEN "finally" ELSE "loop"
    /\ idx' = 1
    /\ UNCHANGED <<matcher_vars, runner_vars, fetched, pulse_config, family, body, message, orig, calls, acks,
                   log, fetches, resolves, raised, result>>

\* one locale of the fan-out of ReleaseTaskCompletedQueue._on_message:
\* data['locale'] = locale (which changes nothing when the payload carries
\* the single locale), then _handle_locale(locale)
ReleaseLocale ==
    /\ pc = "loop"
    /\ family = "release"
    /\ \E cb \in CallbackOutcomes :
         LET d == With(data, "locale", items[idx])
             r == release_handle_locale(pulse_config, d, items[idx], cb)
             clause == IF r.exc = None THEN None ELSE element_clause(r.exc)
         IN
         /\ data' = d
         /\ checked' = checked \o r.checked
         /\ calls' = calls \o r.calls
         /\ log' = IF clause \in {"info", "exception"} THEN Append(log, clause) ELSE log
         /\ raised' = IF clause \in {"info", "exception"}
                      THEN Append(raised, [exc |-> r.exc, at |-> "element"])
                      ELSE raised
         /\ exc' = IF clause = "uncaught" THEN r.exc ELSE None
         /\ pc' = IF clause = "uncaught" THEN "except"
                  ELSE IF idx = Len(items) THEN "finally" ELSE "loop"
    /\ idx' = idx + 1
    /\ UNCHANGED <<matcher_vars, runner_vars, fetched, pulse_config, family, body, message, orig, items, acks,
                   fetches, resolves, result>>

\* 'raw_json': data (build, release) and 'raw_json': update (funsize) store
\* the dict itself, not a copy: what the n-th record of the message reads
\* in its raw_json now. The build and the release queue give the dict that
\* _on_message works on, the funsize queue the element of the list, which
\* nothing writes to.
raw_json_now(n) ==
    IF family \in {"build", "release"} THEN data ELSE calls[n].raw_json

\* the n-th record the callback was given, as it reads now
record_now(n) == [calls[n] EXCEPT !.raw_json = raw_json_now(n)]

\* the except clauses of process_message
Except ==
    /\ pc = "except"
    /\ LET clause == except_clause(exc) IN
         /\ log' = IF clause \in {"debug", "exception"} THEN Append(log, clause) ELSE log
         /\ raised' = IF clause \in {"debug", "exception"}
                      THEN Append(raised, [exc |-> exc, at |-> "message"])
                      ELSE raised
         /\ exc' = IF clause \in {"debug", "exception"} THEN None ELSE exc
    /\ pc' = "finally"
    /\ UNCHANGED <<matcher_vars, runner_vars, fetched, pulse_config, family, body, message, data, orig, items, idx,
                   calls, acks, fetches, resolves, checked, result>>

\* the finally clause with its test inverted
finally_acks_inverted(msg) == IF IsNull(msg) THEN 1 ELSE 0

\* the number of message.ack() calls of the finally clause
finally_acks(msg) == IF ~IsNull(msg) THEN 1 ELSE 0

\* the finally clause of process_message: after it process_message returns
\* to the bus client, or the exception no clause has caught goes up to it
Finally ==
    /\ pc = "finally"
    /\ acks' = acks + finally_acks(message)
    /\ result' = IF exc = None THEN "returned" ELSE "raised"
    /\ pc' = "done"
    /\ UNCHANGED <<matcher_vars, runner_vars, fetched, pulse_config, family, body, message, data, orig, items, idx,
                   exc, calls, log, fetches, resolves, checked, raised>>

\* the bus client is back in its loop, ready for the next message: nothing
\* is left of the call but the attributes of the queue, which no method
\* assigns
Return ==
    /\ pc = "done"
    /\ pc' = "Subscribed"
    /\ body' = JNull
    /\ message' = JNull
    /\ data' = JNull
    /\ orig' = JNull
    /\ items' = <<>>
    /\ idx' = 1
    /\ exc' = None
    /\ calls' = <<>>
    /\ acks' = 0
    /\ log' = <<>>
    /\ fetches' = 0
    /\ fetched' = "none"
    /\ resolves' = <<>>
    /\ checked' = <<>>
    /\ raised' = <<>>
    /\ result' = "none"
    /\ UNCHANGED <<matcher_vars, runner_vars, pulse_config, family>>

Next ==
    \/ Deliver
    \/ Preprocess
    \/ BuildOnMessage
    \/ FunsizeOnMessage
    \/ FunsizeUpdate
    \/ ReleaseOnMessage
    \/ ReleaseLocale
    \/ Except
    \/ Finally
    \/ Return

Spec == Init /\ [][Next]_vars

\* ------------------------------------------------ cc_key_regex.search

\* the words before "funsize" in a routing key
KeyPrefixes == {<<>>, <<W("index")>>, <<W("route"), W("index")>>}

\* the word that holds "funsize" and what can stand between it and ".v1."
FunsizeWords == {<<W("funsize")>>, <<W("xfunsizex")>>, <<W("funsize"), W("extra")>>}

\* the segments between the platform and "balrog": one to MaxSegments numbers
KeySegments == {[n \in 1..Len(q) |-> W(q[n])] : q \in SeqsUpTo({"4", "5"}, MaxSegments) \ {<<>>}}

\* <prefix>funsize<..>.v1.<tree>.latest.<platform>.<segments>, with .balrog
\* at its end or without
ShapedKey(prefix, funsize, tree, platform, segments, balrog) ==
    Dotted(prefix \o funsize \o <<W("v1"), tree, W("latest"), W(platform)>>
           \o segments \o (IF balrog THEN <<W("balrog")>> ELSE <<>>))

\* the routing keys searched
RoutingKeys ==
    { ShapedKey(x, f, t, p, g, b) :
        x \in KeyPrefixes, f \in FunsizeWords, t \in Trees, p \in Platforms,
        g \in KeySegments, b \in BOOLEAN }
    \cup {OtherKey, ReleaseKey(MozillaAurora)}

\* the search has not been made
Unsearched == [unsearched |-> TRUE]

\* a queue of the funsize class and a routing key to search
InitMatcher ==
    /\ QueueInit
    /\ family = "funsize"
    /\ routing_key \in RoutingKeys
    /\ key_match = Unsearched
    /\ RunnerIdle

\* match = self.cc_key_regex.search(routing_key)
Search ==
    /\ key_match = Unsearched
    /\ key_match' = funsize_search(routing_key)
    /\ UNCHANGED <<routing_key, queue_vars, runner_vars>>

NextMatcher == Search

SpecMatcher == InitMatcher /\ [][NextMatcher]_vars

\* ------------------------------------------------ Runner.run_tests

\* what a call into the treeherder client or the S3 client can do
CallOutcomes == {"ok", "raise"}

\* what subprocess.check_call(command) can do
CommandOutcomes == {"ok", "CalledProcessError"}

\* FirefoxUITestJob(...): the details added, the result once completed
NewJob == [details |-> <<>>, logs |-> <<>>, result |-> "running"]

\* job.add_details(title=...)
add_details(j, title) == [j EXCEPT !.details = Append(@, title)]

\* Runner.upload_s3(path): the URL, or None with no bucket or a failed
\* upload. [url, printed]
upload_s3(bucket, path, outcome) ==
    IF IsNull(bucket) THEN [url |-> None, printed |-> <<>>]
    ELSE IF outcome = "raise"
    THEN [url |-> None, printed |-> <<"Failure uploading">>]
    ELSE [url |-> path, printed |-> <<>>]

\* run_tests has installed the build and set job and th to None
InitRunner ==
    /\ QueueInit
    /\ family = "build"
    /\ pulse_config = PolicyEmpty
    /\ MatcherIdle
    /\ environ \in [AWS_BUCKET : BOOLEAN, TREEHERDER_URL : BOOLEAN,
                     BUILD_URL : BOOLEAN, TREEHERDER_KEY : BOOLEAN]
    /\ run_pc = "setup"
    /\ s3_bucket = JNull
    /\ job = JNull
    /\ th = JNull
    /\ failed = FALSE
    /\ printed = <<>>
    /\ submissions = <<>>
    /\ run_exc = None

\* the bucket and the job, as the environment asks for them
SetupJob ==
    /\ run_pc = "setup"
    /\ s3_bucket' = IF environ.AWS_BUCKET THEN [bucket |-> "AWS_BUCKET"] ELSE JNull
    /\ job' = IF ~environ.TREEHERDER_URL THEN JNull
              ELSE IF environ.BUILD_URL THEN add_details(NewJob, "CI Build")
              ELSE NewJob
    /\ run_pc' = IF environ.TREEHERDER_URL THEN "submit" ELSE "command"
    /\ UNCHANGED <<environ, th, failed, printed, submissions, run_exc,
                   queue_vars, matcher_vars>>

\* the try statement that posts the 'running' status
SubmitRunning ==
    /\ run_pc = "submit"
    /\ \E out \in CallOutcomes :
         IF ~environ.TREEHERDER_KEY
         THEN /\ th' = JNull
              /\ printed' = Append(printed, "Cannot post job information")
              /\ UNCHANGED submissions
         ELSE /\ th' = [url |-> "TREEHERDER_URL"]
              /\ IF out = "raise"
                 THEN /\ printed' = Append(printed, "Cannot post job information")
                      /\ UNCHANGED submissions
                 ELSE /\ submissions' = Append(submissions, job.result)
                      /\ UNCHANGED printed
    /\ run_pc' = "command"
    /\ UNCHANGED <<environ, s3_bucket, job, failed, run_exc,
                   queue_vars, matcher_vars>>

\* subprocess.check_call(command)
RunCommand ==
    /\ run_pc = "command"
    /\ \E out \in CommandOutcomes :
         run_pc' = IF out = "ok" THEN "finally" ELSE "except"
    /\ UNCHANGED <<environ, s3_bucket, job, th, failed, printed, submissions,
                   run_exc, queue_vars, matcher_vars>>

\* the except clause of the test command: the upload of http.log and the
\* detail added to the job
HandleFailure ==
    /\ run_pc = "except"
    /\ failed' = TRUE
    /\ \E out \in CallOutcomes :
         LET http_log == upload_s3(s3_bucket, "http.log", out) IN
         /\ printed' = printed \o http_log.printed
         /\ IF http_log.url = None THEN UNCHANGED <<job, run_exc>>
            ELSE IF IsNull(job)
            THEN /\ run_exc' = "AttributeError"
                 /\ UNCHANGED job
            ELSE /\ job' = add_details(job, "http.log")
                 /\ UNCHANGED run_exc
    /\ run_pc' = "finally"
    /\ UNCHANGED <<environ, s3_bucket, th, submissions, queue_vars, matcher_vars>>

\* the job as the finally clause completes it: the logs uploaded, the result
completed_job(j, gecko, tbpl, has_failed) ==
    [details |-> j.details \o (IF gecko.url = None THEN <<>> ELSE <<"gecko.log">>),
     logs |-> IF tbpl.url = None THEN <<>> ELSE <<"tbpl.log">>,
     result |-> IF has_failed THEN "testfailed" ELSE "success"]

\* the finally clause: the report of the result when there is a job and a
\* submission; then run_tests returns, or raises the exception in flight
ReportResult ==
    /\ run_pc = "finally"
    /\ IF IsNull(job) \/ IsNull(th)
       THEN UNCHANGED <<job, printed, submissions>>
       ELSE \E up1 \in CallOutcomes, up2 \in CallOutcomes, out \in CallOutcomes :
              LET gecko == upload_s3(s3_bucket, "gecko.log", up1)
                  tbpl == upload_s3(s3_bucket, "tbpl.log", up2)
                  done == completed_job(job, gecko, tbpl, failed)
              IN
              /\ job' = done
              /\ IF out = "raise"
                 THEN /\ printed' = printed \o gecko.printed \o tbpl.printed
                                      \o <<"Cannot post job information">>
                      /\ UNCHANGED submissions
                 ELSE /\ printed' = printed \o gecko.printed \o tbpl.printed
                      /\ submissions' = Append(submissions, done.result)
    /\ run_pc' = IF run_exc = None THEN "returned" ELSE "raised"
    /\ UNCHANGED <<environ, s3_bucket, th, failed, run_exc, queue_vars, matcher_vars>>

NextRunner ==
    \/ SetupJob
    \/ SubmitRunning
    \/ RunCommand
    \/ HandleFailure
    \/ ReportResult

SpecRunner == InitRunner /\ [][NextRunner]_vars

\* ============================================================ claims

\* an error other than one of the callback reached an except clause
HandlingFailed ==
    \E n \in 1..Len(raised) : raised[n].exc # "CallbackError"

\* an error other than one of the callback reached process_message
MessageFailed ==
    \E n \in 1..Len(raised) :
        raised[n].at = "message" /\ raised[n].exc # "CallbackError"

\* the callback raised
CallbackRaised ==
    \E n \in 1..Len(raised) : raised[n].exc = "CallbackError"

\* the errors of elements of the fan-out that are not the callback's
ElementFailures ==
    {n \in 1..Len(raised) :
        raised[n].at = "element" /\ raised[n].exc # "CallbackError"}

\* C1: a message delivered with a message object is acknowledged exactly
\* once, whatever the outcome of its handling: not before process_message
\* reaches its finally clause, and once when process_message is over.
C1_AckExactlyOnce ==
    /\ pc \in {"preprocess", "on_message", "loop", "except", "finally"} => acks = 0
    /\ (pc = "done" /\ ~IsNull(message)) => acks = 1
    /\ (pc = "done" /\ IsNull(message)) => acks = 0

\* a message whose secondary fetch failed has been acknowledged
C1_Witness ==
    /\ pc = "done"
    /\ ~IsNull(message)
    /\ fetches = 1
    /\ MessageFailed
    /\ acks = 1

\* C2 as stated: after any failure while handling a message (missing field,
\* policy rejection, failed fetch, failed revision resolution)
\* process_message returns normally and no record was emitted for the message.
C2_Original ==
    (pc = "done" /\ HandlingFailed) => (result = "returned" /\ calls = <<>>)

\* C2 amended: no failure propagates out of process_message, which returns
\* normally; a failure that reaches process_message (raised by Preprocess or
\* by Validate-and-Emit outside the fan-out) leaves zero records; a failure
\* of one element of a fan-out costs the record of that element only; and
\* the queue waits for the next message with nothing left of the last one.
C2_FailureIsolated ==
    /\ pc = "done" => (result = "returned" /\ exc = None)
    /\ (pc = "done" /\ MessageFailed) => calls = <<>>
    /\ (pc = "done" /\ ~MessageFailed /\ family # "build")
          => Len(calls) + Cardinality(ElementFailures) = Len(items)
    /\ pc = "Subscribed"
          => (calls = <<>> /\ raised = <<>> /\ exc = None /\ IsNull(data)
              /\ IsNull(body) /\ items = <<>> /\ result = "none")

\* a failed secondary fetch: process_message returned, no record
C2_Witness ==
    /\ pc = "done"
    /\ fetches = 1
    /\ MessageFailed
    /\ result = "returned"
    /\ calls = <<>>

Allowed(set, x) == set = {} \/ x \in set

\* the update passes the checks of the funsize queue and has the fields of
\* a record
AcceptedUpdate(u) ==
    /\ {"branch", "appName", "platform", "locale"} \cup UpdateKeys \subseteq DOMAIN u
    /\ u["branch"] \in DOMAIN pulse_config
    /\ Allowed(pulse_config[u["branch"]].products, lower(u["appName"]))
    /\ Allowed(pulse_config[u["branch"]].platforms, u["platform"])
    /\ u["locale"] \notin pulse_config[u["branch"]].blacklist
    /\ Allowed(pulse_config[u["branch"]].locales, u["locale"])

\* C4: in a list of updates an element that is rejected by policy or is
\* malformed produces no record and stops no later element: the records
\* emitted are those of the accepted elements handled so far, in order,
\* and the loop ends after the last element.
C4_ElementsIndependent ==
    family = "funsize" =>
        /\ [n \in 1..Len(calls) |-> calls[n].raw_json]
             = SelectSeq(SubSeq(items, 1, idx - 1), AcceptedUpdate)
        /\ pc \in {"finally", "done"} => idx = Len(items) + 1

\* a list of two updates: the first has no locale, the second is emitted
C4_Witness ==
    /\ pc = "done"
    /\ family = "funsize"
    /\ IsList(data)
    /\ Len(items) = 2
    /\ ~Has(items[1], "locale")
    /\ Len(calls) = 1
    /\ calls[1].raw_json = items[2]

\* the locale passes the locale check of the tree
AcceptedLocale(tree, l) ==
    /\ tree \in DOMAIN pulse_config
    /\ l \notin pulse_config[tree].blacklist
    /\ Allowed(pulse_config[tree].locales, l)

\* the release manifest passes the tree, product and platform checks
AcceptedRelease(d) ==
    /\ IsDict(d)
    /\ {"tree", "product", "platform"} \subseteq DOMAIN d
    /\ d["tree"] \in DOMAIN pulse_config
    /\ Allowed(pulse_config[d["tree"]].products, lower(d["product"]))
    /\ Allowed(pulse_config[d["tree"]].platforms, d["platform"])

\* the locales of the records emitted
CallLocales == [n \in 1..Len(calls) |-> calls[n].locale]

\* the locales of the manifest that pass the locale check
AcceptedLocales(d) ==
    LET Test(l) == AcceptedLocale(d["tree"], l) IN SelectSeq(d["locales"], Test)

\* C5 as stated: for a release manifest with a locales list whose tree,
\* product and platform pass, the callback is invoked once for every locale
\* of the list that passes the locale check and never for one that fails it.
C5_Original ==
    (family = "release" /\ pc = "done" /\ AcceptedRelease(orig)
        /\ Has(orig, "locales") /\ ~Has(orig, "locale"))
    => CallLocales = AcceptedLocales(orig)

\* C5 amended: the same for a manifest that also carries the fields of a
\* record (branch, buildid, revision, version).
C5_LocalesFanOut ==
    (family = "release" /\ pc = "done" /\ AcceptedRelease(orig)
        /\ Has(orig, "locales") /\ ~Has(orig, "locale")
        /\ ReleaseKeys \subseteq DOMAIN orig)
    => CallLocales = AcceptedLocales(orig)

\* two locales, the first fails the locale check, the second is emitted
C5_Witness ==
    /\ family = "release"
    /\ pc = "done"
    /\ AcceptedRelease(orig)
    /\ Has(orig, "locales")
    /\ Len(orig["locales"]) = 2
    /\ ~AcceptedLocale(orig["tree"], orig["locales"][1])
    /\ CallLocales = <<orig["locales"][2]>>

\* the update passes the checks of the funsize queue
PassesUpdatePolicy(u) ==
    /\ {"branch", "appName", "platform", "locale"} \subseteq DOMAIN u
    /\ u["branch"] \in DOMAIN pulse_config
    /\ Allowed(pulse_config[u["branch"]].products, lower(u["appName"]))
    /\ Allowed(pulse_config[u["branch"]].platforms, u["platform"])
    /\ u["locale"] \notin pulse_config[u["branch"]].blacklist
    /\ Allowed(pulse_config[u["branch"]].locales, u["locale"])

\* the payload given to _on_message is one update, bare or in a list
OneUpdate ==
    /\ family = "funsize"
    /\ pc = "done"
    /\ ~IsNull(data)
    /\ IsList(data) => Len(data["list"]) = 1

\* the update of such a payload
TheUpdate == IF IsList(data) THEN data["list"][1] ELSE data

\* C6 as stated: a payload that is one dict d is handled as the list [d]:
\* the callback is invoked exactly once when d passes the policy checks and
\* zero times otherwise.
C6_Original ==
    OneUpdate => Len(calls) = IF PassesUpdatePolicy(TheUpdate) THEN 1 ELSE 0

\* C6 amended: a payload that is one dict d is handled as the list [d]: in
\* both forms the callback is invoked exactly once, with the same record,
\* when d passes the policy checks and carries the fields of a record, and
\* zero times otherwise.
C6_DictAsList ==
    OneUpdate =>
        /\ items = <<TheUpdate>>
        /\ calls = IF AcceptedUpdate(TheUpdate)
                   THEN <<update_properties(TheUpdate)>> ELSE <<>>

\* a bare dict was emitted once
C6_Witness ==
    /\ OneUpdate
    /\ IsDict(data)
    /\ AcceptedUpdate(data)
    /\ calls = <<update_properties(data)>>

\* the build payload passes the five checks of the build queue
AcceptedBuild(d) ==
    /\ IsDict(d)
    /\ {"tree", "product", "platform", "tags", "locale"} \subseteq DOMAIN d
    /\ d["tree"] \in DOMAIN pulse_config
    /\ Allowed(pulse_config[d["tree"]].products, lower(d["product"]))
    /\ Allowed(pulse_config[d["tree"]].platforms, d["platform"])
    /\ pulse_config[d["tree"]].tags \subseteq d["tags"]
    /\ AcceptedLocale(d["tree"], d["locale"])

\* the record has the build URL of the payload for en-US and none otherwise
BuildUrlOfLocale ==
    calls[1].build_url = IF orig["locale"] = "en-US" THEN orig["buildurl"] ELSE None

\* C7 as stated: a build message that passes all checks yields exactly one
\* record, whose build URL is that of the payload when the locale is en-US
\* and absent otherwise.
C7_Original ==
    (family = "build" /\ pc = "done" /\ AcceptedBuild(orig))
    => (Len(calls) = 1 /\ BuildUrlOfLocale)

\* the payload has the fields of a record
BuildRecordKeys(d) == BuildKeysBefore(d) \cup BuildKeysAfter \subseteq DOMAIN d

\* the record of the same payload with another locale differs in nothing
\* but the locale, the build URL and the raw payload
SiblingAgrees(l2) ==
    LET sib == build_on_message(pulse_config, With(orig, "locale", l2), "ok", "return") IN
    sib.calls # <<>> =>
        \A f \in DOMAIN calls[1] \ {"locale", "build_url", "raw_json"} :
            sib.calls[1][f] = calls[1][f]

\* C7 amended: a build message that passes all checks, carries the fields
\* of a record and whose revision is resolved yields exactly one record;
\* its build URL is that of the payload when the locale is en-US and absent
\* otherwise, and every other derived field is that of the same build in
\* any other locale.
C7_BuildRecord ==
    (family = "build" /\ pc = "done" /\ AcceptedBuild(orig)
        /\ BuildRecordKeys(orig)
        /\ resolves # <<>> /\ resolves[1].outcome = "ok")
    => /\ Len(calls) = 1
       /\ BuildUrlOfLocale
       /\ \A l2 \in Locales : SiblingAgrees(l2)

\* a build of locale de that has a build URL is emitted without it
C7_Witness ==
    /\ family = "build"
    /\ pc = "done"
    /\ AcceptedBuild(orig)
    /\ orig["locale"] = "de"
    /\ Has(orig, "buildurl")
    /\ Len(calls) = 1
    /\ calls[1].build_url = None

\* C8: the raw_json of every record is the payload the queue received from
\* Preprocess, unmodified (for an update, the element of the list).
C8_RawJsonUnmodified ==
    \A n \in 1..Len(calls) :
        IF family = "funsize"
        THEN \E i \in 1..Len(items) : calls[n].raw_json = items[i]
        ELSE calls[n].raw_json = orig

\* C9: the product, platform, locale and tag checks are total: they answer
\* true or false, and false for a tree the policy does not list.
C9_ChecksTotal ==
    \A n \in 1..Len(checked) :
        /\ checked[n].result \in {"True", "False"}
        /\ (checked[n].fn # "is_valid_tree"
              /\ checked[n].tree \notin DOMAIN pulse_config)
            => checked[n].result = "False"

\* C10: is_valid_tree answers true for every tree when the policy lists no
\* tree, and otherwise exactly when the tree is one the policy lists.
C10_IsValidTree ==
    \A n \in 1..Len(checked) :
        checked[n].fn = "is_valid_tree" =>
            checked[n].result =
                IF DOMAIN pulse_config = {} THEN "True"
                ELSE IF checked[n].tree \in DOMAIN pulse_config THEN "True"
                ELSE "False"

\* a tree was accepted by a policy that lists none
C10_Witness ==
    \E n \in 1..Len(checked) :
        /\ checked[n].fn = "is_valid_tree"
        /\ DOMAIN pulse_config = {}
        /\ checked[n].result = "True"

\* C11: for a tree the policy lists, is_valid_locale answers true exactly
\* when the locale is not one of the tree's blocked locales and the tree's
\* list of allowed locales is empty or has the locale; a blocked locale is
\* invalid whatever the allowed list says.
C11_IsValidLocale ==
    \A n \in 1..Len(checked) :
        (checked[n].fn = "is_valid_locale"
            /\ checked[n].tree \in DOMAIN pulse_config)
        => checked[n].result =
             IF checked[n].arg \in pulse_config[checked[n].tree].blacklist
             THEN "False"
             ELSE IF pulse_config[checked[n].tree].locales = {} THEN "True"
             ELSE IF checked[n].arg \in pulse_config[checked[n].tree].locales
             THEN "True"
             ELSE "False"

\* a locale that is both allowed and blocked was found invalid
C11_Witness ==
    \E n \in 1..Len(checked) :
        /\ checked[n].fn = "is_valid_locale"
        /\ checked[n].tree \in DOMAIN pulse_config
        /\ checked[n].arg \in pulse_config[checked[n].tree].locales
        /\ checked[n].arg \in pulse_config[checked[n].tree].blacklist
        /\ checked[n].result = "False"

\* C12: cc_key_regex of the funsize queue, searched in a key of the shape
\* <prefix>funsize<..>.v1.<tree>.latest.<platform>.<segments>.balrog (tree a
\* tree name, platform a platform name, the segments numbers), finds exactly
\* that tree and that platform; in the same key without its last segment
\* .balrog it finds no match.
C12_FunsizeKeyGroups ==
    key_match # Unsearched =>
        \A x \in KeyPrefixes, f \in FunsizeWords, t \in Trees, p \in Platforms,
           g \in KeySegments :
            /\ routing_key = ShapedKey(x, f, t, p, g, TRUE)
                 => key_match = [tree |-> t, platform |-> W(p)]
            /\ routing_key = ShapedKey(x, f, t, p, g, FALSE)
                 => IsNull(key_match)

\* index.funsize.v1.mozilla-central.latest.win32.4.5.balrog was searched
C12_Witness ==
    /\ routing_key = FunsizeKey(MozillaCentral, "win32")
    /\ key_match = [tree |-> MozillaCentral, platform |-> W("win32")]

\* the message has routing keys and none matches the pattern of the family
NoKeyMatches ==
    /\ ~IsNull(message)
    /\ family = "funsize" =>
         \A n \in 1..Len(message.headers.CC) :
             IsNull(funsize_search(message.headers.CC[n]))
    /\ family = "release" =>
         \A n \in 1..Len(message.headers.CC) :
             ~release_search(message.headers.CC[n])

\* Preprocess is over
PreprocessOver == pc \notin {"Subscribed", "preprocess"}

\* C13: a message of the update or of the release family none of whose
\* carbon-copy routing keys matches the pattern of the family is rejected by
\* Preprocess before any network call: no secondary fetch is made and no
\* record is emitted for it.
C13_NoMatchRejected ==
    (family \in {"funsize", "release"} /\ PreprocessOver /\ NoKeyMatches)
    => (fetches = 0 /\ calls = <<>>)

\* a routing key of the message matches the pattern of the family and names
\* a tree that the policy does not accept or, for an update, a platform that
\* the policy of the tree does not accept. The policy lists release trees
\* as release-<branch>: a release key is taken to name an invalid tree when
\* neither its tree nor release-<tree> is accepted.
KeyNamesInvalid ==
    /\ ~IsNull(message)
    /\ family = "funsize" =>
         \E n \in 1..Len(message.headers.CC) :
            LET m == funsize_search(message.headers.CC[n]) IN
            /\ ~IsNull(m)
            /\ \/ is_valid_tree(pulse_config, m.tree) = "False"
               \/ is_valid_platform(pulse_config, m.tree, as_word(m.platform)) = "False"
    /\ family = "release" =>
         \E n \in 1..Len(message.headers.CC) :
            LET m == release_tree(message.headers.CC[n]) IN
            /\ ~IsNull(m)
            /\ is_valid_tree(pulse_config, m.tree) = "False"
            /\ is_valid_tree(pulse_config, <<"release", "-">> \o m.tree) = "False"

\* C14: a message of the update or of the release family with a routing key
\* that matches the pattern of the family and names an invalid tree (or, for
\* an update, an invalid platform) is rejected by Preprocess, and no
\* secondary fetch is made for it.
C14_InvalidKeyRejected ==
    (family \in {"funsize", "release"} /\ PreprocessOver /\ KeyNamesInvalid)
    => (fetches = 0 /\ calls = <<>>)

\* the revision is a full-length changeset id, not an abbreviated one
FullLength(revision) == revision = LongRev

\* C15: the revision of every record passed to the callback, in every
\* family, is full-length, whatever form the revision had in the payload or
\* in the manifest fetched.
C15_RevisionFullLength ==
    \A n \in 1..Len(calls) : FullLength(calls[n].revision)

\* C16: dashboard reporting of run_tests is best-effort: with the dashboard
\* URL set or unset, the upload bucket set or unset, the test command
\* succeeding or failing, a failure or the absence of dashboard reporting
\* never raises an exception out of run_tests.
C16_ReportingBestEffort ==
    /\ run_exc = None
    /\ run_pc # "raised"

\* the order of the checks of Validate-and-Emit
CheckOrder ==
    <<"is_valid_tree", "is_valid_product", "is_valid_platform",
      "has_valid_tags", "is_valid_locale">>

\* the checks Preprocess made for the routing keys of the message
PreprocessChecks ==
    IF family = "funsize" /\ ~IsNull(message)
    THEN funsize_cc(pulse_config, message.headers.CC).checked
    ELSE <<>>

\* the checks Validate-and-Emit made
ValidationChecks ==
    SubSeq(checked, Len(PreprocessChecks) + 1, Len(checked))

\* the checks q are the first checks of CheckOrder, in that order, and none
\* but the last of them failed
InCheckOrder(q) ==
    /\ Len(q) <= Len(CheckOrder)
    /\ \A n \in 1..Len(q) :
         /\ q[n].fn = CheckOrder[n]
         /\ n < Len(q) => q[n].result = "True"

\* C17: Validate-and-Emit of each family runs the checks tree, product,
\* platform, tags, locale in that order and stops at the first that fails:
\* for a payload of one element the checks made are the first checks of
\* that order, up to the first failing one, and none after it.
C17_ChecksInOrder ==
    (pc = "done" /\ (family = "build" \/ Len(items) <= 1))
    => InCheckOrder(ValidationChecks)

\* the tags the message (or element) of record n carried: a payload with no
\* tags field carries none
CarriedTags(n) ==
    IF Has(calls[n].raw_json, "tags") THEN calls[n].raw_json["tags"] ELSE {}

\* C18: every record passed to the callback, in every family, is that of a
\* message (or element) that carries all the required tags of its tree: no
\* record is emitted for a tree with required tags when the message does not
\* carry all of them.
C18_RequiredTags ==
    \A n \in 1..Len(calls) :
        /\ calls[n].tree \in DOMAIN pulse_config
        /\ pulse_config[calls[n].tree].tags \subseteq CarriedTags(n)

\* the fan-out loop iterates the elements of the payload in their order
LoopInPayloadOrder ==
    pc = "loop" =>
        /\ family = "funsize" =>
             items = IF IsList(data) THEN data["list"] ELSE <<data>>
        /\ family = "release" =>
             items = IF Has(orig, "locale") THEN <<orig["locale"]>>
                     ELSE orig["locales"]

\* the element the last record of q was made from
LastElement(q) ==
    IF family = "funsize" THEN q[Len(q)].raw_json ELSE q[Len(q)].locale

\* a step that changes the calls of the callback either forgets them when
\* the bus client takes over again, or adds one call for the message being
\* handled, before its acknowledgement, in the loop for the element the
\* loop is at
CallbackStep ==
    calls' # calls =>
        \/ pc = "done" /\ calls' = <<>>
        \/ /\ acks = 0
           /\ acks' = 0
           /\ message' = message
           /\ body' = body
           /\ Len(calls') = Len(calls) + 1
           /\ SubSeq(calls', 1, Len(calls)) = calls
           /\ pc = "loop" => (LastElement(calls') = items[idx] /\ idx' = idx + 1)

\* C19: all the calls of the callback for a message are made before the
\* message is acknowledged, in the order of the elements (updates or
\* locales) of the payload; none is made after the acknowledgement, and
\* none for another message in between.
C19_CallbacksBeforeAck ==
    /\ []LoopInPayloadOrder
    /\ [][CallbackStep]_vars

\* a release of two locales: two calls in the order of the list, then the
\* acknowledgement
C19_Witness ==
    /\ pc = "done"
    /\ family = "release"
    /\ ~IsNull(message)
    /\ acks = 1
    /\ Has(orig, "locales")
    /\ Len(orig["locales"]) = 2
    /\ orig["locales"][1] # orig["locales"][2]
    /\ CallLocales = orig["locales"]

\* the secondary fetch of the message failed
FetchFailed == fetched \in FetchFailures

\* C20: a failure of the secondary fetch, of any kind (error status, no
\* connection or timeout, a body that is not JSON), ends Preprocess with no
\* record emitted and is handled by the except clause for unexpected
\* exceptions, which logs at error level, never by the ValueError clause of
\* policy rejections, which logs at debug level.
C20_FetchFailureIsMalformed ==
    (pc \in {"finally", "done"} /\ FetchFailed) =>
        /\ calls = <<>>
        /\ checked = PreprocessChecks
        /\ raised = <<[exc |-> fetched, at |-> "message"]>>
        /\ log[Len(log)] = "exception"

\* the resolver is called for accepted build messages only, the callback
\* after a resolution that succeeded only
ResolverThenCallback ==
    /\ resolves # <<>> =>
          (family = "build" /\ AcceptedBuild(orig) /\ Len(resolves) = 1)
    /\ (family = "build" /\ calls # <<>>) =>
          (resolves # <<>> /\ resolves[1].outcome = "ok")
    /\ (resolves # <<>> /\ resolves[1].outcome # "ok") => calls = <<>>
    /\ family # "build" => resolves = <<>>

\* C21 as stated: get_long_revision is called only for a build message that
\* has passed the five policy checks, exactly once for every such message
\* and before the callback; the callback is called only if the resolution
\* succeeded; the resolver is never called for an update message.
C21_Original ==
    /\ ResolverThenCallback
    /\ (family = "build" /\ pc = "done" /\ AcceptedBuild(orig))
          => Len(resolves) = 1

\* C21 amended: the same, the resolver being called exactly once for every
\* build message that has passed the five checks and carries the fields the
\* record reads before the revision (buildid, revision, and buildurl when
\* the locale is en-US), and not at all for one that lacks any of them.
C21_ResolverOncePerBuild ==
    /\ ResolverThenCallback
    /\ (family = "build" /\ pc = "done" /\ AcceptedBuild(orig))
          => Len(resolves) =
                IF BuildKeysBefore(orig) \subseteq DOMAIN orig THEN 1 ELSE 0

\* the resolution of an accepted build message failed: no record
C21_Witness ==
    /\ family = "build"
    /\ pc = "done"
    /\ AcceptedBuild(orig)
    /\ Len(resolves) = 1
    /\ resolves[1].outcome = "HTTPError"
    /\ calls = <<>>
    /\ raised = <<[exc |-> "HTTPError", at |-> "message"]>>

\* C22: a release message with K valid locales yields K independent records:
\* after a later locale has been handled every record emitted earlier reads
\* as it did when it was emitted, and the locale in its raw_json is still
\* the locale of the record.
C22_RecordsIndependent ==
    family = "release" =>
        \A n \in 1..Len(calls) :
            /\ record_now(n) = calls[n]
            /\ raw_json_now(n)["locale"] = calls[n].locale

\* the (tree, platform, locale) of a record
Triple(c) == <<c.tree, c.platform, c.locale>>

\* C23: within the handling of one update or release message no two calls
\* of the callback carry the same (tree, platform, locale), also when the
\* list of updates or of locales repeats an entry.
C23_OneRecordPerTriple ==
    family \in {"funsize", "release"} =>
        \A m, n \in 1..Len(calls) :
            Triple(calls[m]) = Triple(calls[n]) => m = n

\* the payload handed to _on_message has every field of its family, and at
\* least one update or locale
WellFormedPayload ==
    CASE family = "build" ->
            IsDict(orig) /\ BuildKeys \subseteq DOMAIN orig
      [] family = "funsize" ->
            /\ ~IsNull(orig)
            /\ funsize_items(orig) # <<>>
            /\ \A i \in 1..Len(funsize_items(orig)) :
                  DOMAIN GoodUpdate \subseteq DOMAIN funsize_items(orig)[i]
      [] family = "release" ->
            /\ IsDict(orig)
            /\ DOMAIN GoodRelease \subseteq DOMAIN orig
            /\ \/ Has(orig, "locale")
               \/ (Has(orig, "locales") /\ orig["locales"] # <<>>)

\* C24: when the policy lists no tree every tree is allowed end to end: a
\* well-formed build, update or release message of any tree, whose revision
\* lookup does not fail, results in a call of the callback.
C24_AcceptAllTrees ==
    (DOMAIN pulse_config = {} /\ pc = "done" /\ WellFormedPayload
        /\ \A n \in 1..Len(resolves) : resolves[n].outcome = "ok")
    => calls # <<>>

\* the URL the resolver queries for a revision in the repository of the
\* record: the repository URL with the scheme of the resolver
ResolverUrlOf(c) ==
    <<"https://hg.mozilla.org/">> \o Tail(c.repository)
        \o <<"/", "json-rev", "/", orig["revision"]>>

\* C25: for every build record the repository the resolver queried is the
\* repository the record names (the tree without its release- prefix, under
\* releases/ unless it is a -central tree).
C25_ResolvedInRecordRepo ==
    (family = "build" /\ calls # <<>>) =>
        /\ calls[1].repository = build_repo(orig["tree"], calls[1].branch)
        /\ resolves[1].url = ResolverUrlOf(calls[1])

\* the product that is_valid_product was given for the message
CheckedProducts ==
    {checked[n].arg : n \in {m \in 1..Len(checked) : checked[m].fn = "is_valid_product"}}

\* C26: the product of every record is the value that was checked against
\* the policy, and is one of the products the tree allows unless the tree
\* allows every product.
C26_ProductAsChecked ==
    \A n \in 1..Len(calls) :
        /\ calls[n].product \in CheckedProducts
        /\ Allowed(pulse_config[calls[n].tree].products, calls[n].product)

====
